---------------------------- MODULE Spec2Model ----------------------------
(***************************************************************************)
(* A model of aw-daily-reviewer: the event reduction pipeline of           *)
(* core.py (ActivityWatchCleaner) and the tree-editing state machine of    *)
(* gui.py (ReviewTable, a ttk.Treeview).                                   *)
(*                                                                         *)
(* Time is counted in ticks, TicksPerSecond ticks to the second, so that   *)
(* durations with a fractional-second part exist.  A Treeview item id      *)
(* ("I001", "I002", ...) is modelled by its serial number: the ids are     *)
(* compared as strings by the code, and below "I1000" the string order is  *)
(* the order of the serial numbers.  The root item "" is 0.                *)
(***************************************************************************)
EXTENDS Integers, Sequences, FiniteSets, TLC

VARIABLES
    buckets,              \* ActivityWatchCleaner.buckets (core.py:25)
    tv,                   \* the Treeview's own state: children, item, selection, serial
    events_by_node_id,    \* ReviewTable.events_by_node_id (Unset before update/load_json)
    visual_mode,          \* ReviewTable.visual_mode
    previously_selected,  \* ReviewTable.previously_selected (the anchor)
    old_selection,        \* ReviewTable.old_selection
    date,                 \* ReviewTable.date
    last,                 \* history: how the last handler ended
    run,                  \* history: the visual run being grown since enter_visual_mode
    steps,                \* history: the number of handlers run so far
    files,                \* the days directory: the document saved under each date
    today,                \* the calendar day, as to_json reads it from the clock
    pin,                  \* pipeline check: the raw events of the three buckets
    pstage,               \* pipeline check: the step of get_collapsed_events reached
    pout                  \* pipeline check: the value of merged_events / reduced_events

vars == <<buckets, tv, events_by_node_id, visual_mode, previously_selected,
          old_selection, date, last, run, steps, files, today, pin, pstage, pout>>

guiVars == <<buckets, tv, events_by_node_id, visual_mode, previously_selected,
             old_selection, date, last, run, steps, files, today>>

pipeVars == <<pin, pstage, pout>>

-----------------------------------------------------------------------------
(* Bounds of the model.                                                    *)

TicksPerSecond == 2
MaxSteps == 6
MaxRaw == 2
MaxDay == 3

\* The day the program is started on.
FirstDay == 1

-----------------------------------------------------------------------------
(* Generic helpers.                                                        *)

None == -1
Root == 0

Max(S) == CHOOSE x \in S : \A y \in S : y <= x
Min(S) == CHOOSE x \in S : \A y \in S : x <= y

Range(s) == {s[i] : i \in DOMAIN s}

RECURSIVE Concat(_)
Concat(ss) == IF ss = <<>> THEN <<>> ELSE Head(ss) \o Concat(Tail(ss))

Seconds(n) == n * TicksPerSecond
HalfSecond == TicksPerSecond \div 2

-----------------------------------------------------------------------------
(* core.py: the event reduction pipeline.  An event is a record            *)
(* [timestamp, duration, data]; data is a record whose fields are the      *)
(* payload's keys.                                                         *)

SecondsPerDay == 86400
DefaultReduceTime == 60

EndOf(e) == e.timestamp + e.duration

\* datetime.timedelta.seconds: the seconds component of a non-negative
\* timedelta, without its days and without its microseconds.
TimedeltaSeconds(d) == (d \div TicksPerSecond) % SecondsPerDay

\* datetime.timedelta.total_seconds() > t, for t a whole number of seconds.
TotalSecondsGreater(d, t) == d > Seconds(t)

\* format_event_text with the message case tried before the app/title case.
format_event_text_message_first(data) ==
    IF "message" \in DOMAIN data
        THEN [ok |-> TRUE, text |-> <<"afk: ", data.message>>]
    ELSE IF {"app", "title"} \subseteq DOMAIN data
        THEN [ok |-> TRUE, text |-> <<data.app, ": ", data.title>>]
    ELSE IF "status" \in DOMAIN data
        THEN [ok |-> TRUE, text |-> <<data.status>>]
    ELSE [ok |-> FALSE, text |-> <<"Unidentified event">>]

\* format_event_text: [ok |-> TRUE, text] or the AWDailyReviewerError.  A
\* string built from parts is the tuple of its parts.
format_event_text(data) ==
    IF {"app", "title"} \subseteq DOMAIN data
        THEN [ok |-> TRUE, text |-> <<data.app, ": ", data.title>>]
    ELSE IF "message" \in DOMAIN data
        THEN [ok |-> TRUE, text |-> <<"afk: ", data.message>>]
    ELSE IF "status" \in DOMAIN data
        THEN [ok |-> TRUE, text |-> <<data.status>>]
    ELSE [ok |-> FALSE, text |-> <<"Unidentified event">>]

\* re.search(regex, bucket) for the three patterns the code uses, none of
\* which holds a metacharacter: the pattern occurs somewhere in the id.  A
\* bucket id is modelled as [kind, host], "aw-watcher-<kind>_<host>", and the
\* pattern occurs in it when it is the watcher's kind or the host's name.
ReSearch(regex, bucket) == bucket.kind = regex \/ bucket.host = regex

\* get_matching_bucket_id: [ok |-> TRUE, id], or the exception raised: its
\* class (exc) and the start of its message (err).
get_matching_bucket_id(bs, regex) ==
    LET matching == {b \in bs : ReSearch(regex, b)}
    IN  IF matching = {}
            THEN [ok |-> FALSE, exc |-> "AWDailyReviewerError",
                  err |-> "Could not find a bucket"]
        ELSE IF Cardinality(matching) = 1
            THEN [ok |-> TRUE, id |-> CHOOSE b \in matching : TRUE]
        ELSE [ok |-> FALSE, exc |-> "AWDailyReviewerError",
              err |-> "Found multiple window buckets"]

\* aw_transform.sort_by_timestamp: sorted(events, key=timestamp), stable.
RECURSIVE InsertSorted(_, _)
InsertSorted(s, e) ==
    IF s = <<>> THEN <<e>>
    ELSE IF s[Len(s)].timestamp <= e.timestamp THEN Append(s, e)
    ELSE Append(InsertSorted(SubSeq(s, 1, Len(s) - 1), e), s[Len(s)])

RECURSIVE sort_by_timestamp(_)
sort_by_timestamp(s) ==
    IF s = <<>> THEN <<>>
    ELSE InsertSorted(sort_by_timestamp(SubSeq(s, 1, Len(s) - 1)), s[Len(s)])

\* timeslot: two periods intersect when they share more than an instant.
Intersects(a, b) ==
    (IF a.timestamp >= b.timestamp THEN a.timestamp ELSE b.timestamp)
        < (IF EndOf(a) <= EndOf(b) THEN EndOf(a) ELSE EndOf(b))

\* aw_transform.period_union(events, []): the union of the periods, data cleared.
RECURSIVE PeriodUnionLoop(_, _)
PeriodUnionLoop(merged, rest) ==
    IF rest = <<>> THEN merged
    ELSE LET e == Head(rest)
             l == merged[Len(merged)]
         IN  IF e.timestamp <= EndOf(l)
                 THEN PeriodUnionLoop(
                        [merged EXCEPT ![Len(merged)] =
                            [l EXCEPT !.duration =
                                (IF EndOf(e) > EndOf(l) THEN EndOf(e) ELSE EndOf(l))
                                    - l.timestamp]],
                        Tail(rest))
                 ELSE PeriodUnionLoop(Append(merged, e), Tail(rest))

period_union(events) ==
    LET s == sort_by_timestamp(events)
        m == IF s = <<>> THEN <<>> ELSE PeriodUnionLoop(<<Head(s)>>, Tail(s))
    IN  [i \in DOMAIN m |-> [m[i] EXCEPT !.data = << >>]]

\* get_afk_events, given the sorted events of the afk bucket.
get_afk_events(sorted) ==
    LET u == period_union(SelectSeq(sorted, LAMBDA e :
                 "status" \in DOMAIN e.data /\ e.data.status = "afk"))
    IN  [i \in DOMAIN u |-> [u[i] EXCEPT !.data = [status |-> "afk"]]]

\* aw_transform._split_event(e, dt): <<first part, second part>>, the second
\* part a sequence that is empty where the library returns None.
split_event(e, dt) ==
    IF e.timestamp < dt /\ dt < EndOf(e)
        THEN << [e EXCEPT !.duration = dt - e.timestamp],
                << [e EXCEPT !.timestamp = dt, !.duration = EndOf(e) - dt] >> >>
        ELSE << e, <<>> >>

\* aw_transform.union_no_overlap(events1, events2): the two-index merge loop.
RECURSIVE UnionLoop(_, _, _, _, _)
UnionLoop(events1, events2, e1_i, e2_i, events_union) ==
    IF ~(e1_i <= Len(events1) /\ e2_i <= Len(events2))
        THEN events_union \o SubSeq(events1, e1_i, Len(events1))
                          \o SubSeq(events2, e2_i, Len(events2))
    ELSE LET e1 == events1[e1_i]
             e2 == events2[e2_i]
         IN  IF Intersects(e1, e2)
                 THEN IF e1.timestamp <= e2.timestamp
                     THEN LET sp == split_event(e2, EndOf(e1))
                          IN  IF sp[2] # <<>>
                                  THEN UnionLoop(events1, [events2 EXCEPT ![e2_i] = sp[2][1]],
                                                 e1_i + 1, e2_i, Append(events_union, e1))
                                  ELSE UnionLoop(events1, events2, e1_i + 1, e2_i + 1,
                                                 Append(events_union, e1))
                     ELSE LET sp == split_event(e2, e1.timestamp)
                          IN  IF sp[2] # <<>>
                                  THEN UnionLoop(events1,
                                                 SubSeq(events2, 1, e2_i) \o sp[2]
                                                     \o SubSeq(events2, e2_i + 1, Len(events2)),
                                                 e1_i, e2_i + 1, Append(events_union, sp[1]))
                                  ELSE UnionLoop(events1, events2, e1_i, e2_i + 1,
                                                 Append(events_union, sp[1]))
             ELSE IF e1.timestamp <= e2.timestamp
                 THEN UnionLoop(events1, events2, e1_i + 1, e2_i, Append(events_union, e1))
                 ELSE UnionLoop(events1, events2, e1_i, e2_i + 1, Append(events_union, e2))

union_no_overlap(events1, events2) == UnionLoop(events1, events2, 1, 1, <<>>)

\* aw_transform.heartbeat_merge: <<the merged event>>, or <<>> for None.
heartbeat_merge(last_event, heartbeat, pulsetime) ==
    IF /\ last_event.data = heartbeat.data
       /\ last_event.timestamp <= heartbeat.timestamp
       /\ heartbeat.timestamp <= EndOf(last_event) + Seconds(pulsetime)
        THEN LET new_duration == (heartbeat.timestamp - last_event.timestamp)
                                     + heartbeat.duration
             IN  << [last_event EXCEPT !.duration =
                        IF new_duration > last_event.duration THEN new_duration
                                                              ELSE last_event.duration] >>
        ELSE <<>>

\* aw_transform.heartbeat_reduce(events, pulsetime).
RECURSIVE HeartbeatLoop(_, _, _)
HeartbeatLoop(reduced, rest, pulsetime) ==
    IF rest = <<>> THEN reduced
    ELSE LET merged == heartbeat_merge(reduced[Len(reduced)], Head(rest), pulsetime)
         IN  IF merged # <<>>
                 THEN HeartbeatLoop([reduced EXCEPT ![Len(reduced)] = merged[1]],
                                    Tail(rest), pulsetime)
                 ELSE HeartbeatLoop(Append(reduced, Head(rest)), Tail(rest), pulsetime)

heartbeat_reduce(events, pulsetime) ==
    IF events = <<>> THEN <<>>
    ELSE HeartbeatLoop(<<Head(events)>>, Tail(events), pulsetime)

\* core.py:74 with total_seconds() in place of .seconds.
FilterSmall_total(events, reduce_time) ==
    SelectSeq(events, LAMBDA e : TotalSecondsGreater(e.duration, reduce_time))

\* core.py:74: [e for e in reduced_events if e.duration.seconds > reduce_time]
FilterSmall(events, reduce_time) ==
    SelectSeq(events, LAMBDA e : TimedeltaSeconds(e.duration) > reduce_time)

\* The steps of get_collapsed_events on the three buckets' raw events.
Merged(raw) ==
    union_no_overlap(sort_by_timestamp(raw.ask),
        union_no_overlap(get_afk_events(sort_by_timestamp(raw.afk)),
                         sort_by_timestamp(raw.window)))

Reduced(raw, reduce_time) == heartbeat_reduce(Merged(raw), reduce_time)

Filtered(raw, reduce_time) == FilterSmall(Reduced(raw, reduce_time), reduce_time)

collapsed(raw, reduce_time) == heartbeat_reduce(Filtered(raw, reduce_time), reduce_time)

\* get_collapsed_events: the three bucket lookups, then the steps above.
get_collapsed_events(bs, raw, reduce_time) ==
    LET w == get_matching_bucket_id(bs, "window")
        a == get_matching_bucket_id(bs, "afk")
        k == get_matching_bucket_id(bs, "ask-away")
    IN  IF ~w.ok THEN [ok |-> FALSE, err |-> w.err]
        ELSE IF ~a.ok THEN [ok |-> FALSE, err |-> a.err]
        ELSE IF ~k.ok THEN [ok |-> FALSE, err |-> k.err]
        ELSE [ok |-> TRUE, events |-> collapsed(raw, reduce_time)]

-----------------------------------------------------------------------------
(* ttk.Treeview, the widget ReviewTable extends.  Its state is the record  *)
(* tv: children (the ordered children of the root and of every item), item *)
(* (the options text, values, open of every item), selection (the set of   *)
(* selected items) and serial (the counter the item ids are made from).    *)

Items(t) == DOMAIN t.item

tv_get_children(t, n) == t.children[n]

\* Treeview.parent(item): the parent's id, "" (Root) for a top-level item.
tv_parent(t, n) == CHOOSE p \in DOMAIN t.children : n \in Range(t.children[p])

\* Treeview.index(item): the position of item among its siblings, from 0.
tv_index(t, n) ==
    LET sibs == t.children[tv_parent(t, n)]
    IN  (CHOOSE i \in DOMAIN sibs : sibs[i] = n) - 1

\* Treeview.next(item): the next sibling, "" (Root) when item is the last child.
tv_next(t, n) ==
    LET sibs == t.children[tv_parent(t, n)]
        i == tv_index(t, n) + 1
    IN  IF i < Len(sibs) THEN sibs[i + 1] ELSE Root

\* Treeview.prev(item): the previous sibling, "" (Root) when item is the first child.
tv_prev(t, n) ==
    LET sibs == t.children[tv_parent(t, n)]
        i == tv_index(t, n) + 1
    IN  IF i > 1 THEN sibs[i - 1] ELSE Root

RECURSIVE Descendants(_, _)
Descendants(t, n) ==
    UNION {{c} \cup Descendants(t, c) : c \in Range(t.children[n])}

Ancestors(t, n) == {a \in Items(t) : n \in Descendants(t, a)}

RECURSIVE PreorderOf(_, _)
PreorderOf(t, seq) ==
    IF seq = <<>> THEN <<>>
    ELSE <<Head(seq)>> \o PreorderOf(t, t.children[Head(seq)]) \o PreorderOf(t, Tail(seq))

Preorder(t) == PreorderOf(t, t.children[Root])

\* Treeview.selection(): the selected items, in the order of the tree.
tv_selection(t) == SelectSeq(Preorder(t), LAMBDA n : n \in t.selection)

\* An item is displayed when all its ancestors are open.
Visible(t, n) == \A a \in Ancestors(t, n) : t.item[a].open

InsertAt(seq, i, x) ==
    LET k == IF i < 0 THEN 0 ELSE IF i > Len(seq) THEN Len(seq) ELSE i
    IN  SubSeq(seq, 1, k) \o <<x>> \o SubSeq(seq, k + 1, Len(seq))

Without(seq, S) == SelectSeq(seq, LAMBDA x : x \notin S)

\* Treeview.insert(parent, index, text=, values=): the new item gets the next
\* id and is closed; index is a position from 0 (tk.END: the number of children).
tv_insert(t, parent, index, text, values) ==
    LET id == t.serial + 1
    IN  [t EXCEPT !.serial = id,
                  !.children = [n \in DOMAIN t.children \cup {id} |->
                                   IF n = id THEN <<>>
                                   ELSE IF n = parent THEN InsertAt(t.children[n], index, id)
                                   ELSE t.children[n]],
                  !.item = [n \in DOMAIN t.item \cup {id} |->
                               IF n = id THEN [text |-> text, values |-> values, open |-> FALSE]
                               ELSE t.item[n]]]

NewId(t) == t.serial + 1

END(t, parent) == Len(t.children[parent])

\* Treeview.delete(item): the item and its descendants leave the tree and the
\* selection.
tv_delete(t, n) ==
    LET gone == {n} \cup Descendants(t, n)
    IN  [t EXCEPT !.children = [m \in DOMAIN t.children \ gone |-> Without(t.children[m], gone)],
                  !.item = [m \in DOMAIN t.item \ gone |-> t.item[m]],
                  !.selection = t.selection \ gone]

RECURSIVE tv_delete_all(_, _)
tv_delete_all(t, seq) ==
    IF seq = <<>> THEN t ELSE tv_delete_all(tv_delete(t, Head(seq)), Tail(seq))

\* Treeview.move(item, parent, "end").
tv_move(t, n, parent) ==
    [t EXCEPT !.children = [m \in DOMAIN t.children |->
                               IF m = parent THEN Append(Without(t.children[m], {n}), n)
                               ELSE Without(t.children[m], {n})]]

\* Treeview.see(item): every ancestor of item is opened.
tv_see(t, n) ==
    [t EXCEPT !.item = [m \in DOMAIN t.item |->
                           IF m \in Ancestors(t, n) THEN [t.item[m] EXCEPT !.open = TRUE]
                           ELSE t.item[m]]]

tv_selection_set(t, S) == [t EXCEPT !.selection = S]
tv_selection_add(t, n) == [t EXCEPT !.selection = @ \cup {n}]
tv_selection_remove(t, n) == [t EXCEPT !.selection = @ \ {n}]
tv_selection_toggle(t, n) ==
    [t EXCEPT !.selection = IF n \in @ THEN @ \ {n} ELSE @ \cup {n}]

tv_set_open(t, n, b) == [t EXCEPT !.item[n].open = b]

-----------------------------------------------------------------------------
(* gui.py: the display helpers.  The local timezone is taken to be the     *)
(* one the ticks are counted in.                                           *)

TicksPerMinute == 60 * TicksPerSecond
TicksPerDay == SecondsPerDay * TicksPerSecond

\* event_to_minutes: int(total_seconds / 60).
event_to_minutes(e) == e.duration \div TicksPerMinute

\* event_to_day_pct_str: "{pct * 100:.2f}%", as hundredths of a percent.
event_to_day_pct_str(e) == (e.duration * 10000 + TicksPerDay \div 2) \div TicksPerDay

\* strftime("%H:%M") as the minute of the day.
HourMinute(ts) == (ts \div TicksPerMinute) % (24 * 60)

\* event_to_time_str: "HH:MM - HH:MM".
event_to_time_str(e) == <<HourMinute(e.timestamp), HourMinute(EndOf(e))>>

\* event_to_values: [ok |-> TRUE, values] or format_event_text's error.
event_to_values(e) ==
    LET f == format_event_text(e.data)
    IN  IF f.ok THEN [ok |-> TRUE,
                      values |-> <<event_to_minutes(e), event_to_day_pct_str(e), f.text>>]
        ELSE [ok |-> FALSE, values |-> <<>>]

-----------------------------------------------------------------------------
(* gui.py: ReviewTable.                                                    *)

\* The <<TreeviewSelect>> handler: the new anchor and prior-selection
\* snapshot, or the ValueError of max() / min() on an empty selection.
set_previously_selected(cur, old, ps) ==
    LET new_selections == cur \ old
        removed_selections == old \ cur
    IN  IF new_selections # {}
            THEN [err |-> FALSE,
                  ps |-> IF old # {} /\ Max(new_selections) = Max(old)
                             THEN Min(new_selections) ELSE Max(new_selections),
                  old |-> cur]
        ELSE IF removed_selections # {} /\ ps \in removed_selections
            THEN IF \A x \in cur : x < ps
                     THEN IF cur = {} THEN [err |-> TRUE, ps |-> ps, old |-> old]
                          ELSE [err |-> FALSE, ps |-> Max(cur), old |-> cur]
                 ELSE IF \A x \in cur : x > ps
                     THEN [err |-> FALSE, ps |-> Min(cur), old |-> cur]
                 ELSE [err |-> FALSE, ps |-> None, old |-> cur]
        ELSE [err |-> FALSE, ps |-> ps, old |-> cur]

\* select_next with the anchor compared to the first selected item.
select_next_first(t, vm, ps) ==
    LET selected == tv_selection(t)
    IN  IF selected = <<>> THEN [t |-> t, fired |-> FALSE]
        ELSE LET next_node == tv_next(t, selected[Len(selected)])
             IN  IF next_node = Root THEN [t |-> t, fired |-> FALSE]
                 ELSE IF (vm /\ ps = selected[1]) \/ ps = None
                     THEN [t |-> tv_see(tv_selection_add(t, next_node), next_node),
                           fired |-> TRUE]
                 ELSE IF vm
                     THEN [t |-> tv_see(tv_selection_remove(t, selected[1]), selected[1]),
                           fired |-> TRUE]
                 ELSE [t |-> tv_see(tv_selection_set(t, {next_node}), next_node),
                       fired |-> TRUE]

\* select_next on the widget state t: the new widget state, and whether a
\* selection command ran (which sends <<TreeviewSelect>>).
select_next(t, vm, ps) ==
    LET selected == tv_selection(t)
    IN  IF selected = <<>> THEN [t |-> t, fired |-> FALSE]
        ELSE LET next_node == tv_next(t, selected[Len(selected)])
             IN  IF next_node = Root THEN [t |-> t, fired |-> FALSE]
                 ELSE IF (vm /\ ps = selected[Len(selected)]) \/ ps = None
                     THEN [t |-> tv_see(tv_selection_add(t, next_node), next_node),
                           fired |-> TRUE]
                 ELSE IF vm
                     THEN [t |-> tv_see(tv_selection_remove(t, selected[1]), selected[1]),
                           fired |-> TRUE]
                 ELSE [t |-> tv_see(tv_selection_set(t, {next_node}), next_node),
                       fired |-> TRUE]

select_previous(t, vm, ps) ==
    LET selected == tv_selection(t)
    IN  IF selected = <<>> THEN [t |-> t, fired |-> FALSE]
        ELSE LET previous_node == tv_prev(t, selected[1])
             IN  IF previous_node = Root THEN [t |-> t, fired |-> FALSE]
                 ELSE IF (vm /\ ps = selected[1]) \/ ps = None
                     THEN [t |-> tv_see(tv_selection_add(t, previous_node), previous_node),
                           fired |-> TRUE]
                 ELSE IF vm
                     THEN [t |-> tv_see(tv_selection_remove(t, selected[Len(selected)]),
                                        selected[Len(selected)]),
                           fired |-> TRUE]
                 ELSE [t |-> tv_see(tv_selection_set(t, {previous_node}), previous_node),
                       fired |-> TRUE]

-----------------------------------------------------------------------------
(* History kept for the properties: last tells how the last handler ended  *)
(* (whether it showed a message box, the exception it raised, how the      *)
(* <<TreeviewSelect>> handler ended); run follows a visual selection grown *)
(* from one item; steps counts the handlers run.                           *)

Ran(notice, err, handler) ==
    [notice |-> notice, err |-> err, handler |-> handler]

NoRun == [dir |-> "off", start |-> Root, k |-> 0]

\* The siblings that follow (dir > 0) or precede (dir < 0) item n.
Following(t, n) == Len(t.children[tv_parent(t, n)]) - (tv_index(t, n) + 1)
Preceding(t, n) == tv_index(t, n)

\* The handler's end: the widget state becomes t, the pending
\* <<TreeviewSelect>> (if one was sent) is handled, the history is written.
Finish(t, fired, notice, err, r) ==
    LET h == IF fired
                 THEN set_previously_selected(t.selection, old_selection, previously_selected)
                 ELSE [err |-> FALSE, ps |-> previously_selected, old |-> old_selection]
    IN  /\ steps < MaxSteps
        /\ steps' = steps + 1
        /\ tv' = t
        /\ previously_selected' = h.ps
        /\ old_selection' = h.old
        /\ last' = Ran(notice, err,
                       IF ~fired THEN "none" ELSE IF h.err THEN "ValueError" ELSE "ok")
        /\ run' = r
        /\ UNCHANGED <<buckets, files, today, pipeVars>>

-----------------------------------------------------------------------------
(* The activity data source the client queries: a fixed store of events    *)
(* per bucket.  Day d starts at tick d * TicksPerDay.                      *)

At(d, h, m) == d * TicksPerDay + (h * 60 + m) * TicksPerMinute
Minutes(n) == n * TicksPerMinute
Event(ts, dur, data) == [timestamp |-> ts, duration |-> dur, data |-> data]

Firefox == [app |-> "Firefox", title |-> "Docs"]
Terminal == [app |-> "Terminal", title |-> "vim"]

Store ==
    [window |-> << Event(At(1, 9, 0), Minutes(15), Firefox),
                   Event(At(1, 9, 15), Minutes(15), Terminal),
                   Event(At(2, 10, 0), Minutes(10), Firefox),
                   Event(At(2, 10, 10), Minutes(10), [foo |-> "1"]) >>,
     afk    |-> << Event(At(1, 9, 30), Minutes(15), [status |-> "afk"]) >>,
     ask    |-> << >>]

\* The dates of the date picker MainWindow.update reads.
Dates == {1, 2, 3}
NoEnd == -1

\* client.get_events(bucket, start=, end=): the events that meet the range.
get_events(events, start, end) ==
    SelectSeq(events, LAMBDA e :
        EndOf(e) >= start /\ (end = NoEnd \/ e.timestamp <= end))

\* The three queries of get_collapsed_events(start_time, end_time).
Fetch(start, end) ==
    [window |-> get_events(Store.window, start, end),
     afk    |-> get_events(Store.afk, start, end),
     ask    |-> get_events(Store.ask, start, NoEnd)]

\* update's range for a date: from time.min to time.max of that day.
RangeOf(d) == <<d * TicksPerDay, (d + 1) * TicksPerDay - 1>>

-----------------------------------------------------------------------------
(* The handlers of ReviewTable, one action each.                           *)

Unset == [defined |-> FALSE, map |-> << >>]
Defined(m) == [defined |-> TRUE, map |-> m]

enter_visual_mode ==
    /\ visual_mode' = TRUE
    /\ Finish(tv, FALSE, FALSE, "",
              IF ~visual_mode /\ tv.selection = {previously_selected}
                  THEN [dir |-> "fresh", start |-> previously_selected, k |-> 0]
                  ELSE NoRun)
    /\ UNCHANGED <<events_by_node_id, date>>

leave_visual_mode ==
    /\ visual_mode' = FALSE
    /\ Finish(tv, FALSE, FALSE, "", NoRun)
    /\ UNCHANGED <<events_by_node_id, date>>

SelectNext ==
    LET r == select_next(tv, visual_mode, previously_selected)
    IN  /\ Finish(r.t, r.fired, FALSE, "",
                  IF run.dir \in {"fresh", "next"} /\ Following(tv, run.start) > run.k
                      THEN [run EXCEPT !.dir = "next", !.k = @ + 1]
                  ELSE IF run.dir = "prev"
                      THEN [run EXCEPT !.dir = "prev_shrunk"]
                  ELSE NoRun)
        /\ UNCHANGED <<events_by_node_id, visual_mode, date>>

SelectPrevious ==
    LET r == select_previous(tv, visual_mode, previously_selected)
    IN  /\ Finish(r.t, r.fired, FALSE, "",
                  IF run.dir \in {"fresh", "prev"} /\ Preceding(tv, run.start) > run.k
                      THEN [run EXCEPT !.dir = "prev", !.k = @ + 1]
                  ELSE IF run.dir = "next"
                      THEN [run EXCEPT !.dir = "next_shrunk"]
                  ELSE NoRun)
        /\ UNCHANGED <<events_by_node_id, visual_mode, date>>

open_selected_node ==
    LET selected == tv_selection(tv)
    IN  /\ Finish(IF selected # <<>> THEN tv_set_open(tv, selected[1], TRUE) ELSE tv,
                  FALSE, FALSE, "", NoRun)
        /\ UNCHANGED <<events_by_node_id, visual_mode, date>>

\* What close_selected_node did, for the history: it folded the node it was
\* called on, or climbed from it to its parent.
Closed(how, n) == [dir |-> how, start |-> n, k |-> 0]

\* close_selected_node that folds the parent and leaves the selection.
close_selected_node_no_select ==
    LET selected == tv_selection(tv)
    IN  /\ IF selected = <<>>
               THEN Finish(tv, FALSE, FALSE, "", NoRun)
           ELSE LET is_open == tv.item[selected[1]].open
                    has_children == tv_get_children(tv, selected[1]) # <<>>
                    parent == tv_parent(tv, selected[1])
                IN  IF is_open /\ has_children
                        THEN Finish(tv_set_open(tv, selected[1], FALSE), FALSE, FALSE, "",
                                    Closed("folded", selected[1]))
                    ELSE IF parent # Root
                        THEN Finish(tv_set_open(tv, parent, FALSE),
                                    FALSE, FALSE, "", Closed("climbed", selected[1]))
                    ELSE Finish(tv, FALSE, FALSE, "", NoRun)
        /\ UNCHANGED <<events_by_node_id, visual_mode, date>>

close_selected_node ==
    LET selected == tv_selection(tv)
    IN  /\ IF selected = <<>>
               THEN Finish(tv, FALSE, FALSE, "", NoRun)
           ELSE LET is_open == tv.item[selected[1]].open
                    has_children == tv_get_children(tv, selected[1]) # <<>>
                    parent == tv_parent(tv, selected[1])
                IN  IF is_open /\ has_children
                        THEN Finish(tv_set_open(tv, selected[1], FALSE), FALSE, FALSE, "",
                                    Closed("folded", selected[1]))
                    ELSE IF parent # Root
                        THEN Finish(tv_selection_set(tv_set_open(tv, parent, FALSE), {parent}),
                                    TRUE, FALSE, "", Closed("climbed", selected[1]))
                    ELSE Finish(tv, FALSE, FALSE, "", NoRun)
        /\ UNCHANGED <<events_by_node_id, visual_mode, date>>

\* The names the user may type into the edit dialog ("" is cancel).
Names == {<< >>, <<"renamed">>}

edit_selected_node(result) ==
    LET selected == tv_selection(tv)
    IN  /\ IF selected = <<>>
               THEN Finish(tv, FALSE, FALSE, "", NoRun)
           ELSE LET values == tv.item[selected[1]].values
                IN  IF Len(values) < 3
                        THEN Finish(tv, FALSE, FALSE, "IndexError", NoRun)
                    ELSE IF result = << >>
                        THEN Finish(tv, FALSE, FALSE, "", NoRun)
                    ELSE Finish([tv EXCEPT !.item[selected[1]].values =
                                     Append(SubSeq(values, 1, Len(values) - 1), result)],
                                FALSE, FALSE, "", NoRun)
        /\ UNCHANGED <<events_by_node_id, visual_mode, date>>

\* The loop of remove_selected: delete() of an item that an earlier delete()
\* took with its parent raises TclError and ends the loop.
RECURSIVE DeleteLoop(_, _, _)
DeleteLoop(t, seq, notified) ==
    IF seq = <<>> THEN [t |-> t, err |-> "", notified |-> notified]
    ELSE IF Head(seq) \notin Items(t) THEN [t |-> t, err |-> "TclError", notified |-> notified]
    ELSE DeleteLoop(tv_delete(t, Head(seq)), Tail(seq),
                    notified \/ Head(seq) \in t.selection)

\* Treeview.delete sends <<TreeviewSelect>> for a selected item it deletes in
\* the Tk releases that have the fix, and does not in the older ones.
Notifies(selected_deleted) == IF selected_deleted THEN BOOLEAN ELSE {FALSE}

remove_selected ==
    LET selected == tv_selection(tv)
        r == select_next(tv, FALSE, previously_selected)
        d == DeleteLoop(r.t, selected, FALSE)
    IN  /\ visual_mode' = FALSE
        /\ \E notify \in Notifies(d.notified) :
               Finish(d.t, r.fired \/ notify, FALSE, d.err, NoRun)
        /\ UNCHANGED <<events_by_node_id, date>>

go_to_top ==
    /\ IF tv_get_children(tv, Root) = <<>>
           THEN Finish(tv, FALSE, FALSE, "IndexError", NoRun)
           ELSE Finish(tv_selection_set(tv, {tv_get_children(tv, Root)[1]}), TRUE, FALSE, "", NoRun)
    /\ UNCHANGED <<events_by_node_id, visual_mode, date>>

go_to_bottom ==
    /\ IF tv_get_children(tv, Root) = <<>>
           THEN Finish(tv, FALSE, FALSE, "IndexError", NoRun)
           ELSE Finish(tv_selection_set(tv,
                           {tv_get_children(tv, Root)[Len(tv_get_children(tv, Root))]}),
                       TRUE, FALSE, "", NoRun)
    /\ UNCHANGED <<events_by_node_id, visual_mode, date>>

\* The Treeview class bindings ReviewTable inherits (selectmode extended): a
\* click on a displayed item selects it alone, a Control-click toggles it.
Click(n) ==
    /\ n \in Items(tv) /\ Visible(tv, n)
    /\ Finish(tv_selection_set(tv, {n}), TRUE, FALSE, "", NoRun)
    /\ UNCHANGED <<events_by_node_id, visual_mode, date>>

ControlClick(n) ==
    /\ n \in Items(tv) /\ Visible(tv, n)
    /\ Finish(tv_selection_toggle(tv, n), TRUE, FALSE, "", NoRun)
    /\ UNCHANGED <<events_by_node_id, visual_mode, date>>

-----------------------------------------------------------------------------
(* Serialization.  A document is [nodes, date]; a node entry is            *)
(* [event, node, children] with event << >> for null and <<dict>> for an   *)
(* event's to_json_dict(); node is Treeview.item(node).                    *)

\* Event.to_json_dict(): the timestamp as an ISO string (day, time of day),
\* the duration as total_seconds() (whole seconds, fraction).
to_json_dict(e) ==
    [timestamp |-> <<e.timestamp \div TicksPerDay, e.timestamp % TicksPerDay>>,
     duration  |-> <<e.duration \div TicksPerSecond, e.duration % TicksPerSecond>>,
     data      |-> e.data]

\* aw_core.Event(**json_data["event"]).
EventOfJson(j) ==
    [timestamp |-> j.timestamp[1] * TicksPerDay + j.timestamp[2],
     duration  |-> j.duration[1] * TicksPerSecond + j.duration[2],
     data      |-> j.data]

\* Treeview.item(node): all the options of the item.
tv_item(t, n) ==
    [text |-> t.item[n].text, image |-> "", values |-> t.item[n].values,
     open |-> t.item[n].open, tags |-> ""]

RECURSIVE node_to_json(_, _, _)
node_to_json(t, m, node) ==
    [event    |-> IF node \in DOMAIN m THEN <<to_json_dict(m[node])>> ELSE << >>,
     node     |-> tv_item(t, node),
     children |-> [i \in DOMAIN t.children[node] |-> node_to_json(t, m, t.children[node][i])]]

\* to_json: the date written is the day the document is made.
to_json(t, m, day) ==
    [nodes |-> [i \in DOMAIN t.children[Root] |-> node_to_json(t, m, t.children[Root][i])],
     date  |-> day]

\* load_json_node on the state st = [t, m, err]: the insert, the event, the
\* children; a missing key is the KeyError that ends the load.
RECURSIVE load_json_node(_, _, _)
RECURSIVE LoadNodes(_, _, _)
load_json_node(st, json_data, parent) ==
    IF \/ "node" \notin DOMAIN json_data
       \/ "text" \notin DOMAIN json_data.node
       \/ "values" \notin DOMAIN json_data.node
        THEN [st EXCEPT !.err = "KeyError"]
    ELSE LET node == NewId(st.t)
             t1 == tv_insert(st.t, parent, END(st.t, parent),
                             json_data.node.text, json_data.node.values)
         IN  IF "event" \notin DOMAIN json_data
                 THEN [t |-> t1, m |-> st.m, err |-> "KeyError"]
             ELSE LET m1 == IF json_data.event # << >>
                                THEN [n \in DOMAIN st.m \cup {node} |->
                                         IF n = node THEN EventOfJson(json_data.event[1])
                                         ELSE st.m[n]]
                                ELSE st.m
                  IN  IF "children" \notin DOMAIN json_data
                          THEN [t |-> t1, m |-> m1, err |-> "KeyError"]
                          ELSE LoadNodes([t |-> t1, m |-> m1, err |-> ""],
                                         json_data.children, node)

LoadNodes(st, seq, parent) ==
    IF seq = <<>> \/ st.err # "" THEN st
    ELSE LoadNodes(load_json_node(st, Head(seq), parent), Tail(seq), parent)

\* load_json: the tree is emptied, events_by_node_id reset, the nodes loaded.
load_json(t, json_data) ==
    LET t0 == tv_delete_all(t, tv_get_children(t, Root))
    IN  IF "nodes" \notin DOMAIN json_data
            THEN [t |-> t0, m |-> << >>, err |-> "KeyError"]
            ELSE LoadNodes([t |-> t0, m |-> << >>, err |-> ""], json_data.nodes, Root)

\* The top-level items deleted by update and load_json include a selected one.
TopSelected(t) == t.selection \cap Range(tv_get_children(t, Root)) # {}

\* <Control-Shift-R>: load_json(to_json()).
reload ==
    /\ IF tv_get_children(tv, Root) # <<>> /\ ~events_by_node_id.defined
           THEN /\ Finish(tv, FALSE, FALSE, "AttributeError", NoRun)
                /\ UNCHANGED events_by_node_id
           ELSE LET r == load_json(tv, to_json(tv, events_by_node_id.map, 0))
                IN  /\ \E notify \in Notifies(TopSelected(tv)) :
                           Finish(r.t, notify, FALSE, r.err, NoRun)
                    /\ events_by_node_id' = Defined(r.m)
    /\ UNCHANGED <<visual_mode, date>>

\* The documents of the days directory the user may open: one that an
\* earlier session saved (a group with one leaf, then a leaf), and the same
\* with one required field of one node entry missing.
LeafEntry(e) ==
    [event    |-> <<to_json_dict(e)>>,
     node     |-> [text |-> event_to_time_str(e), image |-> "",
                   values |-> event_to_values(e).values, open |-> FALSE, tags |-> ""],
     children |-> << >>]

GroupEntry(e, kids) ==
    [event    |-> << >>,
     node     |-> [text |-> event_to_time_str(e), image |-> "",
                   values |-> event_to_values(e).values, open |-> TRUE, tags |-> ""],
     children |-> kids]

Drop(r, f) == [k \in DOMAIN r \ {f} |-> r[k]]

SavedLeaf1 == LeafEntry(Store.window[1])
SavedLeaf2 == LeafEntry(Store.window[2])
SavedGroup(kid) == GroupEntry(Store.window[1], <<kid>>)

SavedDocs ==
    { [nodes |-> <<SavedGroup(SavedLeaf1), SavedLeaf2>>, date |-> 1],
      [nodes |-> <<Drop(SavedGroup(SavedLeaf1), "children"), SavedLeaf2>>, date |-> 1],
      [nodes |-> <<SavedGroup(Drop(SavedLeaf1, "event")), SavedLeaf2>>, date |-> 1],
      [nodes |-> <<SavedGroup(SavedLeaf1), Drop(SavedLeaf2, "node")>>, date |-> 1] }

\* MainWindow.open: load_json of the chosen file, then the date of the file.
open(doc) ==
    /\ LET r == load_json(tv, doc)
       IN  /\ \E notify \in Notifies(TopSelected(tv)) :
                  Finish(r.t, notify, FALSE, r.err, NoRun)
           /\ events_by_node_id' = Defined(r.m)
           /\ date' = IF r.err = "" THEN doc.date ELSE date
    /\ UNCHANGED visual_mode

\* MainWindow.save: to_json(), then the document is written to the file named
\* after the date of the table.  to_json fails on a table that has items and
\* no events_by_node_id yet; the assert fails on a table without a date.
save ==
    LET err == IF tv_get_children(tv, Root) # <<>> /\ ~events_by_node_id.defined
                   THEN "AttributeError"
               ELSE IF date = None THEN "AssertionError"
               ELSE ""
        table_json == to_json(tv, events_by_node_id.map, today)
    IN  /\ steps < MaxSteps
        /\ steps' = steps + 1
        /\ files' = IF err # "" THEN files
                    ELSE [d \in DOMAIN files \cup {date} |->
                             IF d = date THEN table_json ELSE files[d]]
        /\ last' = Ran(FALSE, err, "none")
        /\ run' = NoRun
        /\ UNCHANGED <<buckets, tv, events_by_node_id, visual_mode, previously_selected,
                       old_selection, date, today, pipeVars>>

\* MainWindow.open of a file that save wrote: get_saved_dates lists the
\* files by the date in their name.
open_saved(name) == name \in DOMAIN files /\ open(files[name])

\* Midnight passes.
NextDay ==
    /\ today < MaxDay
    /\ today' = today + 1
    /\ UNCHANGED <<buckets, tv, events_by_node_id, visual_mode, previously_selected,
                   old_selection, date, last, run, steps, files, pipeVars>>

\* The insert loop of update: a payload format_event_text does not know ends
\* the loop with the nodes inserted so far.
RECURSIVE InsertEvents(_, _)
InsertEvents(st, events) ==
    IF events = <<>> THEN st
    ELSE LET v == event_to_values(Head(events))
         IN  IF ~v.ok THEN [st EXCEPT !.err = "AWDailyReviewerError"]
             ELSE LET node_id == NewId(st.t)
                      t1 == tv_insert(st.t, Root, END(st.t, Root),
                                      event_to_time_str(Head(events)), v.values)
                  IN  InsertEvents([t |-> t1,
                                    m |-> [n \in DOMAIN st.m \cup {node_id} |->
                                              IF n = node_id THEN Head(events) ELSE st.m[n]],
                                    err |-> ""],
                                   Tail(events))

\* ReviewTable.update(date), as MainWindow.update calls it: with a date.
update(d) ==
    LET t0 == tv_delete_all(tv, tv_get_children(tv, Root))
        range == RangeOf(d)
        res == get_collapsed_events(buckets, Fetch(range[1], range[2]), DefaultReduceTime)
    IN  /\ date' = d
        /\ IF ~res.ok
               THEN /\ \E notify \in Notifies(TopSelected(tv)) :
                           Finish(t0, notify, FALSE, "AWDailyReviewerError", NoRun)
                    /\ events_by_node_id' = Defined(<< >>)
               ELSE LET st == InsertEvents([t |-> t0, m |-> << >>, err |-> ""], res.events)
                    IN  /\ events_by_node_id' = Defined(st.m)
                        /\ IF st.err # ""
                               THEN \E notify \in Notifies(TopSelected(tv)) :
                                        Finish(st.t, notify, FALSE, st.err, NoRun)
                           ELSE IF tv_get_children(st.t, Root) = <<>>
                               THEN \E notify \in Notifies(TopSelected(tv)) :
                                        Finish(st.t, notify, FALSE, "IndexError", NoRun)
                           ELSE Finish(tv_selection_set(st.t, {tv_get_children(st.t, Root)[1]}),
                                       TRUE, FALSE, "", NoRun)
        /\ UNCHANGED visual_mode

\* all(j - i == 1 for i, j in pairwise(all_indexes))
ConsecutiveIndexes(idx) == \A i \in 1..(Len(idx) - 1) : idx[i + 1] - idx[i] = 1

RECURSIVE MoveAll(_, _, _)
MoveAll(t, seq, parent) ==
    IF seq = <<>> THEN t ELSE MoveAll(tv_move(t, Head(seq), parent), Tail(seq), parent)

\* group with the new node appended to the parent instead of inserted at index.
GroupInsert_at_end(t, selected, parent, index, text, values) ==
    LET new_node == NewId(t)
        t1 == tv_insert(t, parent, END(t, parent), text, values)
    IN  tv_selection_set(MoveAll(t1, selected, new_node), {new_node})

\* The tree part of group, from the insert on (gui.py:320-326).
GroupInsert(t, selected, parent, index, text, values) ==
    LET new_node == NewId(t)
        t1 == tv_insert(t, parent, index, text, values)
    IN  tv_selection_set(MoveAll(t1, selected, new_node), {new_node})

\* The aggregate event with the first event's own duration.
pseudo_event_first_only(events) ==
    Event(events[1].timestamp, events[1].duration, events[1].data)

\* group: the aggregate event of the selected nodes' events (gui.py:314-318).
pseudo_event(events) ==
    Event(events[1].timestamp,
          EndOf(events[Len(events)]) - events[1].timestamp,
          events[1].data)

\* ReviewTable.group.
group ==
    LET selected == tv_selection(tv)
    IN  /\ visual_mode' = FALSE
        /\ IF selected = <<>>
               THEN Finish(tv, FALSE, FALSE, "IndexError", NoRun)
           ELSE LET parent == tv_parent(tv, selected[1])
                    index == tv_index(tv, selected[1])
                    all_indexes == [i \in DOMAIN selected |-> tv_index(tv, selected[i])]
                    notice == ~ConsecutiveIndexes(all_indexes)
                IN  IF ~events_by_node_id.defined
                        THEN Finish(tv, FALSE, notice, "AttributeError", NoRun)
                    ELSE IF \E i \in DOMAIN selected :
                                selected[i] \notin DOMAIN events_by_node_id.map
                        THEN Finish(tv, FALSE, notice, "KeyError", NoRun)
                    ELSE LET events == [i \in DOMAIN selected |->
                                           events_by_node_id.map[selected[i]]]
                             v == event_to_values(pseudo_event(events))
                         IN  IF ~v.ok
                                 THEN Finish(tv, FALSE, notice,
                                             "AWDailyReviewerError", NoRun)
                                 ELSE Finish(GroupInsert(tv, selected, parent, index,
                                                 event_to_time_str(pseudo_event(events)),
                                                 v.values),
                                             TRUE, notice, "", NoRun)
        /\ UNCHANGED <<events_by_node_id, date>>

-----------------------------------------------------------------------------
(* The program after construction, and its steps.                          *)

Bucket(kind, host) == [kind |-> kind, host |-> host]

\* The bucket lists client.get_buckets() may return.
BucketLists ==
    { {Bucket("window", "pc"), Bucket("afk", "pc"), Bucket("ask-away", "pc")},
      {Bucket("window", "pc"), Bucket("afk", "pc")},
      {Bucket("window", "pc"), Bucket("window", "laptop"), Bucket("afk", "pc"),
       Bucket("ask-away", "pc")} }

\* ReviewTable.__init__: one placeholder item, nothing selected.
InitTree ==
    [children  |-> (Root :> <<1>>) @@ (1 :> << >>),
     item      |-> (1 :> [text |-> <<"test">>, values |-> << <<"test">>, <<"test">> >>,
                          open |-> FALSE]),
     selection |-> {},
     serial    |-> 1]

InitTable ==
    /\ tv = InitTree
    /\ events_by_node_id = Unset
    /\ visual_mode = FALSE
    /\ previously_selected = None
    /\ old_selection = {}
    /\ date = None
    /\ last = Ran(FALSE, "", "none")
    /\ run = NoRun
    /\ steps = 0
    /\ files = << >>
    /\ today = FirstDay

InitGui == buckets \in BucketLists /\ InitTable

IdlePipe ==
    /\ pin = [window |-> << >>, afk |-> << >>, ask |-> << >>, reduce_time |-> DefaultReduceTime]
    /\ pstage = "idle"
    /\ pout = << >>

Init == InitGui /\ IdlePipe

Next ==
    \/ enter_visual_mode
    \/ leave_visual_mode
    \/ SelectNext
    \/ SelectPrevious
    \/ open_selected_node
    \/ close_selected_node
    \/ \E result \in Names : edit_selected_node(result)
    \/ remove_selected
    \/ go_to_top
    \/ go_to_bottom
    \/ \E n \in Items(tv) : Click(n)
    \/ \E n \in Items(tv) : ControlClick(n)
    \/ reload
    \/ \E doc \in SavedDocs : open(doc)
    \/ \E d \in Dates : update(d)
    \/ group

Spec == Init /\ [][Next]_vars

-----------------------------------------------------------------------------
(* Reviewing over several days: a day is loaded and edited, the table is   *)
(* saved, the saved files are opened again, and the calendar moves on.     *)

\* The day the user reviews.
ReviewedDates == {FirstDay}

NextSave ==
    \/ \E d \in ReviewedDates : update(d)
    \/ save
    \/ \E name \in Dates : open_saved(name)
    \/ NextDay
    \/ group
    \/ go_to_bottom
    \/ remove_selected

SpecSave == Init /\ [][NextSave]_vars

-----------------------------------------------------------------------------
(* The pipeline on its own: get_collapsed_events, step by step, on raw     *)
(* events drawn from bounded sets.                                         *)

SeqsUpTo(S, n) == UNION {[1..k -> S] : k \in 0..n}

RawDurations ==
    {Seconds(50), Seconds(60) + HalfSecond, Seconds(200), Seconds(SecondsPerDay + 10)}

WindowEvents ==
    {Event(Seconds(ts), dur, data) :
        ts \in {0, 100}, dur \in RawDurations, data \in {Firefox, Terminal}}

AfkEvents ==
    {Event(0, Seconds(1000), [status |-> st]) : st \in {"afk", "not-afk"}}

AskAwayEvents == {Event(Seconds(100), Seconds(300), [message |-> "lunch"])}

ReduceTimes == {30, DefaultReduceTime}

RawInputs ==
    [window : SeqsUpTo(WindowEvents, MaxRaw),
     afk : SeqsUpTo(AfkEvents, 1),
     ask : SeqsUpTo(AskAwayEvents, 1),
     reduce_time : ReduceTimes]

InitPipe ==
    /\ InitGui
    /\ pin \in RawInputs
    /\ pstage = "start"
    /\ pout = << >>

\* core.py:66-71: the three fetches (which resolve the buckets) and the two
\* union_no_overlap calls.
PipeMerge ==
    /\ pstage = "start"
    /\ LET r == get_collapsed_events(buckets, pin, pin.reduce_time)
       IN  IF r.ok THEN pstage' = "merged" /\ pout' = Merged(pin)
                   ELSE pstage' = "raised" /\ pout' = pout
    /\ UNCHANGED <<pin, guiVars>>

\* core.py:73
PipeReduce ==
    /\ pstage = "merged"
    /\ pout' = heartbeat_reduce(pout, pin.reduce_time)
    /\ pstage' = "reduced"
    /\ UNCHANGED <<pin, guiVars>>

\* core.py:74
PipeFilter ==
    /\ pstage = "reduced"
    /\ pout' = FilterSmall(pout, pin.reduce_time)
    /\ pstage' = "filtered"
    /\ UNCHANGED <<pin, guiVars>>

\* core.py:76
PipeReduceAgain ==
    /\ pstage = "filtered"
    /\ pout' = heartbeat_reduce(pout, pin.reduce_time)
    /\ pstage' = "done"
    /\ UNCHANGED <<pin, guiVars>>

NextPipe == PipeMerge \/ PipeReduce \/ PipeFilter \/ PipeReduceAgain

SpecPipe == InitPipe /\ [][NextPipe]_vars

-----------------------------------------------------------------------------
(* The two helpers of core.py on their own: get_matching_bucket_id on the  *)
(* bucket ids a server may know, format_event_text on payloads of every    *)
(* shape.                                                                  *)

\* Bucket ids: the three watchers on host "pc", a second window watcher, and
\* watchers on a host whose name is "afk".
KnownBuckets ==
    {Bucket("window", "pc"), Bucket("afk", "pc"), Bucket("ask-away", "pc"),
     Bucket("window", "laptop"), Bucket("window", "afk"), Bucket("input", "pc")}

\* The patterns get_sorted_events is called with (core.py:57, 66-68).
Patterns == {"window", "afk", "ask-away"}

PayloadKeys == {"app", "title", "message", "status", "foo"}

PayloadValue ==
    [k \in PayloadKeys |->
        CASE k = "app" -> "Firefox" [] k = "title" -> "Docs" [] k = "message" -> "lunch"
          [] k = "status" -> "afk" [] OTHER -> "1"]

\* event.data: a mapping with any of the keys.
Payloads == {[k \in K |-> PayloadValue[k]] : K \in SUBSET PayloadKeys}

InitCore ==
    /\ buckets \in SUBSET KnownBuckets
    /\ InitTable
    /\ pin \in [regex : Patterns, data : Payloads]
    /\ pstage = "start"
    /\ pout = << >>

CoreMatch ==
    /\ pstage = "start"
    /\ pout' = get_matching_bucket_id(buckets, pin.regex)
    /\ pstage' = "matched"
    /\ UNCHANGED <<pin, guiVars>>

CoreFormat ==
    /\ pstage = "start"
    /\ pout' = format_event_text(pin.data)
    /\ pstage' = "formatted"
    /\ UNCHANGED <<pin, guiVars>>

NextCore == CoreMatch \/ CoreFormat

SpecCore == InitCore /\ [][NextCore]_vars

-----------------------------------------------------------------------------
(* The claims about the helpers, checked under SpecCore.                   *)

Matching(bs, regex) == {b \in bs : ReSearch(regex, b)}

\* The kind of a failure: the class of the exception raised.
ErrorKind(r) == r.exc

\* C11: get_matching_bucket_id returns the bucket id when exactly one known
\* id matches, fails when none or several match, and the kind of the error
\* for no match differs from the kind of the error for several matches.
C11_BucketMatchOrDistinctErrors ==
    pstage = "matched" =>
        LET n == Cardinality(Matching(buckets, pin.regex))
            others == {bs \in SUBSET KnownBuckets :
                           LET m == Cardinality(Matching(bs, pin.regex))
                           IN  (n = 0 /\ m > 1) \/ (n > 1 /\ m = 0)}
        IN  /\ n = 1 => pout.ok /\ {pout.id} = Matching(buckets, pin.regex)
            /\ n # 1 =>
                   /\ ~pout.ok
                   /\ \A bs \in others :
                          ErrorKind(get_matching_bucket_id(bs, pin.regex))
                              # ErrorKind(pout)

\* C12: format_event_text maps a payload by shape: app and title give
\* "app: title"; otherwise message gives "afk: message"; otherwise status
\* gives the status; a payload of no such shape raises and gives no text.
C12_FormatByShape ==
    pstage = "formatted" =>
        LET d == pin.data
            K == DOMAIN d
        IN  /\ {"app", "title"} \subseteq K =>
                   pout.ok /\ pout.text = <<d.app, ": ", d.title>>
            /\ (~({"app", "title"} \subseteq K) /\ "message" \in K) =>
                   pout.ok /\ pout.text = <<"afk: ", d.message>>
            /\ (~({"app", "title"} \subseteq K) /\ "message" \notin K /\ "status" \in K) =>
                   pout.ok /\ pout.text = <<d.status>>
            /\ (~({"app", "title"} \subseteq K) /\ "message" \notin K /\ "status" \notin K) =>
                   ~pout.ok

\* A payload holding app, title and message has been formatted.
C12_Witness ==
    /\ pstage = "formatted"
    /\ {"app", "title", "message"} \subseteq DOMAIN pin.data
    /\ pout.ok

-----------------------------------------------------------------------------
(* The claims about the pipeline, checked under SpecPipe.                  *)

NonOverlapping(events) ==
    \A i \in 1..(Len(events) - 1) : EndOf(events[i]) <= events[i + 1].timestamp

\* C9: the sequence get_collapsed_events returns is ordered and
\* non-overlapping: each event ends no later than the next one starts.
C9_TimelineNonOverlapping == pstage = "done" => NonOverlapping(pout)

\* C10: the filter step discards a merged event if and only if its duration
\* is <= reduce_time seconds: what it keeps is exactly the events of the first
\* reduction whose total duration is greater than reduce_time.
C10_FilterKeepsLongerThanReduceTime ==
    pstage = "filtered" =>
        pout = FilterSmall_total(Reduced(pin, pin.reduce_time), pin.reduce_time)

-----------------------------------------------------------------------------
(* The claims about the tree, checked under Spec.                          *)

SameParent(t, selected) ==
    \A i \in DOMAIN selected : tv_parent(t, selected[i]) = tv_parent(t, selected[1])

\* The selection is a contiguous run of siblings.
ContiguousSiblings(t) ==
    LET selected == tv_selection(t)
    IN  /\ selected # <<>>
        /\ SameParent(t, selected)
        /\ ConsecutiveIndexes([i \in DOMAIN selected |-> tv_index(t, selected[i])])

IsLeaf(t, m, n) == n \in DOMAIN m /\ t.children[n] = <<>>

ForestUnchanged == tv'.children = tv.children /\ tv'.item = tv.item

\* C1: group() on a selection that is not a contiguous run of siblings reports
\* an error and leaves the tree unchanged: no node created, none moved.
C1_GroupRejectsNonContiguous ==
    [][ (group /\ tv.selection # {} /\ ~ContiguousSiblings(tv))
            => (last'.notice /\ ForestUnchanged) ]_vars

\* C2: load_json(to_json(T)) yields a tree isomorphic to T: the same forest
\* shape and order, labels, display values, fold states and event payloads,
\* that is, the same document.
C2_RoundTripIsomorphic ==
    [][ (reload /\ last'.err = "")
            => to_json(tv', events_by_node_id'.map, 0)
                   = to_json(tv, events_by_node_id.map, 0) ]_vars

\* C3: group() on a contiguous run of sibling leaves creates exactly one new
\* node under the same parent at the first selected node's position, makes
\* the selected nodes its children in their order, leaves every other node's
\* parent and relative order as they were, and selects the new node alone.
C3_GroupContiguousLeaves ==
    [][ LET selected == tv_selection(tv)
            g == NewId(tv)
        IN  (/\ group
             /\ ContiguousSiblings(tv)
             /\ \A i \in DOMAIN selected :
                    IsLeaf(tv, events_by_node_id.map, selected[i]))
            => /\ Items(tv') = Items(tv) \cup {g}
               /\ tv_parent(tv', g) = tv_parent(tv, selected[1])
               /\ tv_index(tv', g) = tv_index(tv, selected[1])
               /\ tv'.children[g] = selected
               /\ \A p \in DOMAIN tv.children :
                      Without(tv'.children[p], {g})
                          = Without(tv.children[p], Range(selected))
               /\ tv'.selection = {g}
               /\ last'.err = "" /\ ~last'.notice ]_vars

\* A group of two or more leaves has just been made and is selected.
C3_Witness ==
    /\ last.err = "" /\ ~last.notice
    /\ tv.serial \in Items(tv)
    /\ tv.selection = {tv.serial}
    /\ Len(tv.children[tv.serial]) >= 2
    /\ \A c \in Range(tv.children[tv.serial]) :
           IsLeaf(tv, events_by_node_id.map, c)

\* The steps C4 names: every handler of ReviewTable, update and load_json.
ListedStep ==
    \/ SelectNext \/ SelectPrevious \/ enter_visual_mode \/ leave_visual_mode
    \/ open_selected_node \/ close_selected_node
    \/ (\E result \in Names : edit_selected_node(result))
    \/ group \/ remove_selected \/ reload
    \/ (\E doc \in SavedDocs : open(doc))
    \/ (\E d \in Dates : update(d))

Populating == reload \/ (\E doc \in SavedDocs : open(doc)) \/ (\E d \in Dates : update(d))

\* C4: once the tree is populated (by update or load_json), the selection is
\* non-empty after every listed step that ends normally and leaves nodes in
\* the tree; in particular remove_selected never empties the selection while
\* nodes remain.
C4_SelectionNeverEmpty ==
    [][ (/\ ListedStep
         /\ tv.selection # {} \/ Populating
         /\ last'.err = ""
         /\ events_by_node_id'.defined
         /\ Items(tv') # {})
            => tv'.selection # {} ]_vars

\* The siblings of the item the run started from, and its position (from 1).
RunSiblings == tv.children[tv_parent(tv, run.start)]
RunPos == tv_index(tv, run.start) + 1

\* C5: from NORMAL with one item i selected and the anchor on i, after
\* enter_visual_mode and k select_next the selection is the k+1 siblings
\* i..i+k with the anchor on the last; k select_previous select i-k..i with
\* the anchor on the first.
C5_VisualExtension ==
    /\ run.dir = "next" =>
           /\ tv.selection = {RunSiblings[RunPos + j] : j \in 0..run.k}
           /\ previously_selected = RunSiblings[RunPos + run.k]
    /\ run.dir = "prev" =>
           /\ tv.selection = {RunSiblings[RunPos - j] : j \in 0..run.k}
           /\ previously_selected = RunSiblings[RunPos - run.k]

\* A visual run has been grown by two select_next.
C5_Witness == run.dir = "next" /\ run.k = 2 /\ visual_mode

\* C6: a run of two or more siblings grown from one item by select_next loses
\* exactly its last item on one select_previous (and a run grown by
\* select_previous its first item on one select_next), wherever the run sits.
C6_VisualShrink ==
    /\ run.dir = "next_shrunk" =>
           tv.selection = {RunSiblings[RunPos + j] : j \in 0..(run.k - 1)}
    /\ run.dir = "prev_shrunk" =>
           tv.selection = {RunSiblings[RunPos - j] : j \in 0..(run.k - 1)}

\* C7: an update(date) that fails with the pipeline's error leaves the forest,
\* the node-to-event association, the selection and the loaded date as they
\* were.
C7_FailedUpdateKeepsState ==
    [][ ((\E d \in Dates : update(d)) /\ last'.err = "AWDailyReviewerError")
            => /\ ForestUnchanged
               /\ tv'.selection = tv.selection
               /\ events_by_node_id' = events_by_node_id
               /\ date' = date ]_vars

\* C8: load_json on a malformed document fails without partially populating
\* the tree: after the failure the tree holds none of the document's nodes.
C8_MalformedLoadLeavesNothing ==
    [][ ((\E doc \in SavedDocs : open(doc)) /\ last'.err = "KeyError")
            => Items(tv') = {} ]_vars

\* The timeline the pipeline returns for date d.
Timeline(d) ==
    get_collapsed_events(buckets, Fetch(RangeOf(d)[1], RangeOf(d)[2]), DefaultReduceTime)

\* C13: update(date), for any timeline the pipeline returns, the empty one
\* included, whose payloads format_event_text accepts, completes with the
\* previous tree discarded, one root-level leaf per event in the timeline's
\* order, each leaf associated with its event, and the first node selected
\* when the timeline is non-empty.
C13_UpdateRebuildsTree ==
    [][ \A d \in Dates :
            (/\ update(d)
             /\ Timeline(d).ok
             /\ \A i \in DOMAIN Timeline(d).events :
                    format_event_text(Timeline(d).events[i].data).ok)
            => LET ev == Timeline(d).events
                   kids == tv'.children[Root]
               IN  /\ last'.err = ""
                   /\ Items(tv') \cap Items(tv) = {}
                   /\ Items(tv') = Range(kids)
                   /\ Len(kids) = Len(ev)
                   /\ DOMAIN events_by_node_id'.map = Range(kids)
                   /\ \A i \in DOMAIN kids : events_by_node_id'.map[kids[i]] = ev[i]
                   /\ ev # <<>> => tv'.selection = {kids[1]} ]_vars

\* Every childless node of the tree has its event.
LeavesHaveEvents ==
    \A n \in Items(tv) : tv.children[n] = <<>> => n \in DOMAIN events_by_node_id.map

\* C14: group() succeeds on a contiguous sibling selection that contains a
\* node made by an earlier group() (a node with children, in a tree loaded
\* for a date whose leaves all have their events): the new node is created
\* and holds the selected nodes.
C14_GroupOfGroupSucceeds ==
    [][ LET selected == tv_selection(tv)
        IN  (/\ group
             /\ events_by_node_id.defined
             /\ date # None
             /\ LeavesHaveEvents
             /\ ContiguousSiblings(tv)
             /\ \E i \in DOMAIN selected : tv.children[selected[i]] # <<>>)
            => /\ last'.err = ""
               /\ NewId(tv) \in Items(tv')
               /\ tv'.children[NewId(tv)] = selected ]_vars

\* The events of the selected nodes, in the order of the selection.
SelectedEvents ==
    [i \in DOMAIN tv_selection(tv) |-> events_by_node_id.map[tv_selection(tv)[i]]]

C16_NormalModeReplaces ==
    [][ LET selected == tv_selection(tv)
            next_node == tv_next(tv, selected[Len(selected)])
            previous_node == tv_prev(tv, selected[1])
        IN  (~visual_mode /\ tv.selection # {})
            => /\ SelectNext =>
                   /\ next_node # Root => tv'.selection = {next_node}
                   /\ Cardinality(tv'.selection) <= Cardinality(tv.selection)
               /\ SelectPrevious =>
                   /\ previous_node # Root => tv'.selection = {previous_node}
                   /\ Cardinality(tv'.selection) <= Cardinality(tv.selection) ]_vars

\* The selected nodes and everything below them.
SelectedSubtrees(t) == t.selection \cup UNION {Descendants(t, n) : n \in t.selection}

\* C17: remove_selected removes exactly the nodes selected when it was called,
\* with their subtrees, and no other node, and ends with visual_mode false.
C17_RemoveExactlySelected ==
    [][ remove_selected
            => /\ Items(tv') = Items(tv) \ SelectedSubtrees(tv)
               /\ ~visual_mode' ]_vars

\* The displayed rows, top to bottom.
Displayed(t) == SelectSeq(Preorder(t), LAMBDA n : Visible(t, n))

\* The position of a displayed node among the rows.
RowOf(t, n) == CHOOSE i \in DOMAIN Displayed(t) : Displayed(t)[i] = n

\* C18: select_next and select_previous move one step in display order: in a
\* tree loaded for a date, with one displayed node selected in NORMAL mode
\* and the anchor on it, select_next selects the row below it and
\* select_previous the row above.
C18_StepInDisplayOrder ==
    [][ \A n \in Items(tv) :
            (/\ ~visual_mode
             /\ date # None
             /\ tv.selection = {n}
             /\ previously_selected = n
             /\ Visible(tv, n))
            => /\ (SelectNext /\ RowOf(tv, n) < Len(Displayed(tv)))
                      => tv'.selection = {Displayed(tv)[RowOf(tv, n) + 1]}
               /\ (SelectPrevious /\ RowOf(tv, n) > 1)
                      => tv'.selection = {Displayed(tv)[RowOf(tv, n) - 1]} ]_vars

\* The widget state with the open flag of n cleared and S selected.
Folded(t, n, S) ==
    [t EXCEPT !.item = [m \in DOMAIN t.item |->
                           [text |-> t.item[m].text, values |-> t.item[m].values,
                            open |-> IF m = n THEN FALSE ELSE t.item[m].open]],
              !.selection = S]

\* C19: close_selected_node on the first selected node: an open node with
\* children is closed and the selection stays; otherwise a node with a parent
\* has its parent closed and the parent becomes the selection; otherwise
\* nothing changes.  No node is created, moved or deleted.
C19_CloseOrClimb ==
    [][ (close_selected_node /\ tv.selection # {})
            => LET n == tv_selection(tv)[1]
                   parent == tv_parent(tv, n)
               IN  /\ tv'.children = tv.children
                   /\ tv'.serial = tv.serial
                   /\ IF tv.item[n].open /\ tv.children[n] # <<>>
                          THEN tv' = Folded(tv, n, tv.selection)
                      ELSE IF parent # Root
                          THEN tv' = Folded(tv, parent, {parent})
                      ELSE tv' = tv ]_vars

\* close_selected_node has climbed from a child to its parent.
C19_Witness ==
    /\ run.dir = "climbed"
    /\ run.start \in Items(tv)
    /\ tv.selection = {tv_parent(tv, run.start)}
    /\ ~tv.item[tv_parent(tv, run.start)].open

-----------------------------------------------------------------------------
(* The claim about saving, checked under SpecSave.                         *)

\* C20: a document saved from a non-empty tree loaded for date D and opened later
\* gives the tree the loaded date D again, and the document's date field is
\* D, whatever the day the save was made on.
C20_OpenRestoresReviewedDate ==
    [][ \A name \in DOMAIN files :
            (open_saved(name) /\ last'.err = "" /\ files[name].nodes # << >>)
            => (date' = name /\ files[name].date = name) ]_vars

-----------------------------------------------------------------------------
(* The claim about the <<TreeviewSelect>> handler, checked under Spec.     *)

\* C21: whenever set_previously_selected runs at the end of a handler that
\* itself raised nothing, on a table loaded for a date, it ends without an
\* error, the anchor is then none or a selected item, and the prior-selection
\* snapshot is the current selection; this includes the run after a deletion
\* that empties the selection.
C21_AnchorHandlerCompletes ==
    [][ (date # None /\ last'.err = "" /\ last'.handler # "none")
            => /\ last'.handler = "ok"
               /\ previously_selected' = None \/ previously_selected' \in tv'.selection
               /\ old_selection' = tv'.selection ]_vars

=============================================================================
